---------------------------- MODULE Spec2Model ----------------------------
(***************************************************************************)
(* Gita-Reader: the retrieval / excerpt-selection / grounded-synthesis     *)
(* pipeline of src/main.py.                                                *)
(*                                                                         *)
(* Conventions                                                             *)
(*   - A similarity is an integer number of hundredths (0.1 is 10).        *)
(*   - A confidence or a search score is an exact rational <<num, den>>    *)
(*     with den > 0; the program's float arithmetic is idealised to exact  *)
(*     arithmetic.                                                         *)
(*   - A text is a sequence of sentences separated by ". "; a sentence is  *)
(*     [words, wlen, sim]: `words` words of `wlen` characters separated by *)
(*     single blanks, and `sim` the similarity the embedding service gives *)
(*     a snippet cut from it (the service is deterministic and opaque).    *)
(***************************************************************************)
EXTENDS Integers, Sequences, FiniteSets, TLC

(***************************************************************************)
(* Program constants                                                       *)
(***************************************************************************)
FREE_TRIAL_USES == 3
max_excerpts == 16
max_per_school == 6
max_tokens == 200
MinSnippetLen == 5
FallbackChars == 500
LowSimThreshold == 10
LowSimCount == 8
PromptCharsPerExcerpt == 200
ExampleWords == 83
InstructionWords == 60
TokenBudgetTenths == 28000
ShrinkTo == 6
FallbackCited == 3
CoverageCap == 4

(***************************************************************************)
(* Bounds of the model                                                     *)
(***************************************************************************)
MaxSents == 6
MaxCited == 2
MaxItems == 2
MaxLimit == 2
MaxAttempts == 5
MaxSupport == 3

(***************************************************************************)
(* Small helpers                                                           *)
(***************************************************************************)
Min(a, b) == IF a <= b THEN a ELSE b
Max(a, b) == IF a >= b THEN a ELSE b
Range(s) == {s[i] : i \in 1..Len(s)}
Take(s, n) == SubSeq(s, 1, Min(n, Len(s)))
SeqsUpTo(S, n) == UNION {[1..k -> S] : k \in 0..n}

Abs(a) == IF a < 0 THEN -a ELSE a

RECURSIVE GCD(_, _)
GCD(a, b) == IF b = 0 THEN a ELSE GCD(b, a % b)

\* Exact rationals <<num, den>>, den > 0, in lowest terms.
Rat(n, d) == <<n \div GCD(Abs(n), d), d \div GCD(Abs(n), d)>>
RatLe(a, b) == a[1] * b[2] <= b[1] * a[2]
RatEq(a, b) == a[1] * b[2] = b[1] * a[2]
RatMin(a, b) == IF RatLe(a, b) THEN a ELSE b
RatMax(a, b) == IF RatLe(a, b) THEN b ELSE a
RatAdd(a, b) == Rat(a[1] * b[2] + b[1] * a[2], a[2] * b[2])
RatMul(a, b) == Rat(a[1] * b[1], a[2] * b[2])
RatNeg(a) == <<-a[1], a[2]>>
Zero == Rat(0, 1)
One == Rat(1, 1)

(***************************************************************************)
(* Texts                                                                   *)
(***************************************************************************)
\* len(sentence.strip()) of a sentence of `words` words of `wlen` characters.
SentLen(words, wlen) == IF words = 0 THEN 0 ELSE words * wlen + (words - 1)

\* len(text.strip()) of the sentences joined by ". ".
RECURSIVE TextLen(_)
TextLen(text) ==
    IF text = <<>> THEN 0
    ELSE SentLen(Head(text).words, Head(text).wlen)
         + (IF Len(text) > 1 THEN 2 ELSE 0) + TextLen(Tail(text))

RECURSIVE TextWords(_)
TextWords(text) ==
    IF text = <<>> THEN 0 ELSE Head(text).words + TextWords(Tail(text))

\* int(max_tokens / 1.3): the chunk size, in words, of an over-long sentence.
ChunkSize == (max_tokens * 10) \div 13

\* The chunks words[i:i+chunk_size] of one over-long sentence, from word `from`.
RECURSIVE Chunks(_, _, _)
Chunks(s, from, k) ==
    IF from >= s.words THEN <<>>
    ELSE LET m == Min(ChunkSize, s.words - from)
         IN  <<[words |-> m, wlen |-> s.wlen, sim |-> s.sim, k |-> k]>>
             \o Chunks(s, from + ChunkSize, k + 1)

\* split_text_into_sentences: the snippets of a text, each tagged with its
\* ordinal k in the text.
RECURSIVE split_text_into_sentences(_, _)
split_text_into_sentences(text, k) ==
    IF text = <<>> THEN <<>>
    ELSE LET s == Head(text)
             here == IF s.words = 0 THEN <<>>
                     ELSE IF s.words * 13 <= max_tokens * 10
                          THEN <<[words |-> s.words, wlen |-> s.wlen,
                                  sim |-> s.sim, k |-> k]>>
                          ELSE Chunks(s, 0, k)
         IN  here \o split_text_into_sentences(Tail(text), k + Len(here))

(***************************************************************************)
(* Excerpt selection                                                       *)
(***************************************************************************)
Excerpt(c, src, sn) ==
    [id |-> c.id, school |-> c.school, src |-> src, k |-> sn.k,
     len |-> SentLen(sn.words, sn.wlen), words |-> sn.words,
     wlen |-> sn.wlen, sim |-> sn.sim]

SchoolCount(excerpts, school) ==
    Cardinality({i \in 1..Len(excerpts) : excerpts[i].school = school})

\* Mutant: the inner loop does not stop at the cap.
TakeSnippetsNoBreak(excerpts, c, src, snippets, perSchool) ==
    LET Usable(sn) == SentLen(sn.words, sn.wlen) >= MinSnippetLen
        usable == SelectSeq(snippets, Usable)
    IN  excerpts \o [n \in 1..Len(usable) |-> Excerpt(c, src, usable[n])]

\* The inner loop over one commentary's snippets (lines 1341-1355).
RECURSIVE TakeSnippets(_, _, _, _, _)
TakeSnippets(excerpts, c, src, snippets, perSchool) ==
    IF snippets = <<>> THEN excerpts
    ELSE LET sn == Head(snippets)
         IN  IF SentLen(sn.words, sn.wlen) < MinSnippetLen
             THEN TakeSnippets(excerpts, c, src, Tail(snippets), perSchool)
             ELSE LET added == Append(excerpts, Excerpt(c, src, sn))
                  IN  IF SchoolCount(added, c.school) >= perSchool
                      THEN added
                      ELSE TakeSnippets(added, c, src, Tail(snippets), perSchool)

\* The capped loop over the commentaries (lines 1326-1355).
RECURSIVE CappedExcerpts(_, _, _, _)
CappedExcerpts(excerpts, data, i, perSchool) ==
    IF i > Len(data) THEN excerpts
    ELSE LET c == data[i]
         IN  IF SchoolCount(excerpts, c.school) >= perSchool
             THEN CappedExcerpts(excerpts, data, i + 1, perSchool)
             ELSE CappedExcerpts(
                      TakeSnippets(excerpts, c, i,
                                   split_text_into_sentences(c.text, 1),
                                   perSchool),
                      data, i + 1, perSchool)

\* Mutant: no fallback to whole commentaries.
WholeExcerptsSkipped(data, i) == <<>>

\* The fallback to whole commentaries (lines 1357-1366).
RECURSIVE WholeExcerpts(_, _)
WholeExcerpts(data, i) ==
    IF i > Len(data) THEN <<>>
    ELSE LET c == data[i]
             here == IF TextLen(c.text) > MinSnippetLen
                     THEN <<[id |-> c.id, school |-> c.school, src |-> i,
                             k |-> 0,
                             len |-> Min(TextLen(c.text), FallbackChars),
                             words |-> TextWords(c.text),
                             wlen |-> c.text[1].wlen,
                             sim |-> c.text[1].sim]>>
                     ELSE <<>>
         IN  here \o WholeExcerpts(data, i + 1)

\* list.sort(key=similarity, reverse=True): stable, descending.
RECURSIVE InsertBySim(_, _)
InsertBySim(sorted, e) ==
    IF sorted = <<>> THEN <<e>>
    ELSE IF Head(sorted).sim >= e.sim
         THEN <<Head(sorted)>> \o InsertBySim(Tail(sorted), e)
         ELSE <<e>> \o sorted

RECURSIVE SortBySim(_, _)
SortBySim(sorted, rest) ==
    IF rest = <<>> THEN sorted
    ELSE SortBySim(InsertBySim(sorted, Head(rest)), Tail(rest))

Candidates(data, perSchool) ==
    LET capped == CappedExcerpts(<<>>, data, 1, perSchool)
    IN  IF capped # <<>> THEN capped ELSE WholeExcerpts(data, 1)

\* Mutant: a failing embedding step returns the first 8 candidates.
RankExcerptsFailureReturnsEight(excerpts, encodeOk, maxExcerpts) ==
    IF ~encodeOk THEN Take(excerpts, Min(LowSimCount, Len(excerpts)))
    ELSE LET ranked == SortBySim(<<>>, excerpts)
             selected == Take(ranked, maxExcerpts)
         IN  IF selected = <<>> \/ selected[1].sim < LowSimThreshold
             THEN Take(ranked, Min(LowSimCount, Len(ranked)))
             ELSE selected

\* Mutant: the low-similarity return is taken from the unsorted candidates.
RankExcerptsLowSimUnranked(excerpts, encodeOk, maxExcerpts) ==
    IF ~encodeOk THEN Take(excerpts, Min(maxExcerpts, Len(excerpts)))
    ELSE LET ranked == SortBySim(<<>>, excerpts)
             selected == Take(ranked, maxExcerpts)
         IN  IF selected = <<>> \/ selected[1].sim < LowSimThreshold
             THEN Take(excerpts, Min(LowSimCount, Len(excerpts)))
             ELSE selected

\* The ranking step (lines 1371-1399); encodeOk = FALSE: model.encode raises.
RankExcerpts(excerpts, encodeOk, maxExcerpts) ==
    IF ~encodeOk THEN Take(excerpts, Min(maxExcerpts, Len(excerpts)))
    ELSE LET ranked == SortBySim(<<>>, excerpts)
             selected == Take(ranked, maxExcerpts)
         IN  IF selected = <<>> \/ selected[1].sim < LowSimThreshold
             THEN Take(ranked, Min(LowSimCount, Len(ranked)))
             ELSE selected

\* select_top_excerpts(commentaries_data, query, model, max_excerpts,
\* max_per_school); the query is in the similarities of the sentences.
select_top_excerpts(data, modelOk, encodeOk, maxExcerpts, perSchool) ==
    IF data = <<>> \/ ~modelOk THEN <<>>
    ELSE LET excerpts == Candidates(data, perSchool)
         IN  IF excerpts = <<>> THEN <<>>
             ELSE RankExcerpts(excerpts, encodeOk, maxExcerpts)


(***************************************************************************)
(* Confidence estimator                                                    *)
(***************************************************************************)
\* model_confidence = None; a number is a rational <<num, den>>.
NoConfidence == <<>>

DistinctSchools(excerpts) == {excerpts[i].school : i \in 1..Len(excerpts)}

\* Mutant: no early return for an empty list of supporting excerpts.
compute_hybrid_confidence_no_guard(supporting_excerpts, total_schools, support_count, N, model_confidence) ==
    LET coverage ==
            Rat(Cardinality({supporting_excerpts[i].school : i \in 1..Len(supporting_excerpts)}),
                IF total_schools <= 4 THEN total_schools ELSE 4)
        computed_confidence ==
            RatAdd(RatMul(Rat(2, 10), coverage), RatMul(Rat(1, 10), Rat(support_count, N)))
        final_confidence ==
            IF model_confidence # <<>>
            THEN RatAdd(RatMul(Rat(1, 2), model_confidence), RatMul(Rat(1, 2), computed_confidence))
            ELSE computed_confidence
    IN  RatMin(final_confidence, One)

\* Mutant: coverage is taken over all the schools, without the cap of 4.
compute_hybrid_confidence_uncapped(supporting_excerpts, total_schools, support_count, N, model_confidence) ==
    IF supporting_excerpts = <<>> THEN Zero
    ELSE LET coverage == Rat(Cardinality(DistinctSchools(supporting_excerpts)), total_schools)
             computed_confidence ==
                 RatAdd(RatMul(Rat(2, 10), coverage),
                        RatMul(Rat(1, 10), Rat(support_count, N)))
             final_confidence ==
                 IF model_confidence # NoConfidence
                 THEN RatAdd(RatMul(Rat(1, 2), model_confidence),
                             RatMul(Rat(1, 2), computed_confidence))
                 ELSE computed_confidence
         IN  RatMin(final_confidence, One)

\* compute_hybrid_confidence; model_confidence is NoConfidence or a rational.
compute_hybrid_confidence(supporting_excerpts, total_schools, support_count, N, model_confidence) ==
    IF supporting_excerpts = <<>> THEN Zero
    ELSE LET distinct_schools == Cardinality(DistinctSchools(supporting_excerpts))
             coverage == Rat(distinct_schools, Min(total_schools, CoverageCap))
             support_strength == Rat(support_count, N)
             computed_confidence ==
                 RatAdd(RatMul(Rat(2, 10), coverage),
                        RatMul(Rat(1, 10), support_strength))
             final_confidence ==
                 IF model_confidence # NoConfidence
                 THEN RatAdd(RatMul(Rat(1, 2), model_confidence),
                             RatMul(Rat(1, 2), computed_confidence))
                 ELSE computed_confidence
         IN  RatMin(final_confidence, One)

(***************************************************************************)
(* The reasoning service's response                                        *)
(*                                                                         *)
(* net    "ok" or "raise" (requests.post raises: timeout, connection)      *)
(* status the HTTP status                                                  *)
(* body   "ok" or "unreadable" (response.json() or the path into it fails) *)
(* raw    the message content as a sequence of tokens: "obj" a complete    *)
(*        brace-delimited JSON object, "val" a JSON value that is not an   *)
(*        object and holds no brace, "txt" text that is not JSON and holds *)
(*        no brace                                                         *)
(* obj    the fields of the JSON object, when one is parsed                *)
(***************************************************************************)
allowed_directions ==
    {"practical_action", "renunciation", "devotional", "jnana", "mixed",
     "insufficient_evidence"}

\* A field of the JSON object is [kind, value]: kind "absent" (no such key),
\* "other" (a value of another type than the field's), "unhashable" (a list or
\* dict where a string is expected), "badlist" (a list holding an unhashable
\* element), "string", "list" or "number".
Field(kind, value) == [kind |-> kind, value |-> value]
Absent == Field("absent", <<>>)
Other == Field("other", <<>>)
Unhashable == Field("unhashable", <<>>)
BadList == Field("badlist", <<>>)
Str(x) == Field("string", x)
List(x) == Field("list", x)
Num(n, d) == Field("number", Rat(n, d))

CommentaryIds == {"C1", "C2"}
CitableIds == CommentaryIds \cup {"C9"}
Schools == {"Advaita", "Dvaita"}

ReportedDirections == {Absent, Str("devotional"), Str("bogus"), Unhashable}
ReportedIds == {Absent, Other, BadList} \cup {List(l) : l \in SeqsUpTo(CitableIds, MaxCited)}
ReportedSchools == {Absent, Other, List(<<"Mimamsa">>)}
ReportedConfidences == {Absent, Other, Num(-5, 10), Num(5, 10), Num(15, 10)}
Statuses == {200, 401, 429, 500, 503}
RawForms ==
    { <<"obj">>, <<"txt", "obj", "txt">>, <<"obj", "txt", "obj">>,
      <<"val">>, <<"txt">>, <<>> }

NoObj ==
    [direction |-> Absent, supporting_ids |-> Absent,
     supporting_schools |-> Absent, confidence_score |-> Absent,
     summary |-> Absent]

\* The JSON objects the service answers with: every combination of direction,
\* citation list, school list and confidence with a summary, and the object
\* without a summary.
Objects ==
    [direction : ReportedDirections, supporting_ids : ReportedIds,
     supporting_schools : ReportedSchools,
     confidence_score : ReportedConfidences, summary : {Str("text")}]
    \cup {[direction |-> Str("devotional"), supporting_ids |-> List(<<"C1">>),
           supporting_schools |-> List(<<"Mimamsa">>),
           confidence_score |-> Num(5, 10), summary |-> Absent]}

\* The objects tried inside surrounding text: every citation list, the other
\* fields well-formed.
EmbeddedObjects ==
    {o \in Objects : /\ o.direction = Str("devotional")
                     /\ o.supporting_schools.kind = "list"
                     /\ o.confidence_score = Num(5, 10)
                     /\ o.summary = Str("text")}

\* json.loads(raw_content): "dict", "other" (a value that is no dict) or
\* "error" (JSONDecodeError).
StrictParse(raw) ==
    IF raw = <<"obj">> THEN "dict"
    ELSE IF raw = <<"val">> THEN "other"
    ELSE "error"

ObjPositions(raw) == {i \in 1..Len(raw) : raw[i] = "obj"}
SetMin(S) == CHOOSE x \in S : \A y \in S : x <= y
SetMax(S) == CHOOSE x \in S : \A y \in S : x >= y

\* extract_json_from_text: re.search(r'\{.*\}', text, re.DOTALL) is greedy,
\* from the first opening brace to the last closing brace; no brace: the text.
extract_json_from_text(raw) ==
    IF ObjPositions(raw) = {} THEN raw
    ELSE SubSeq(raw, SetMin(ObjPositions(raw)), SetMax(ObjPositions(raw)))

\* The parse of lines 1581-1589: "dict", "other" or "error" (both failed).
ParseResponse(raw) ==
    IF StrictParse(raw) # "error" THEN StrictParse(raw)
    ELSE StrictParse(extract_json_from_text(raw))

ParsesToObject(raw) == ParseResponse(raw) = "dict"

Responses ==
    {[net |-> "raise", status |-> 0, body |-> "ok", raw |-> <<>>, obj |-> NoObj]}
    \cup {[net |-> "ok", status |-> s, body |-> "ok", raw |-> <<>>, obj |-> NoObj]
            : s \in Statuses \ {200}}
    \cup {[net |-> "ok", status |-> 200, body |-> "unreadable", raw |-> <<>>,
           obj |-> NoObj]}
    \cup {[net |-> "ok", status |-> 200, body |-> "ok", raw |-> r, obj |-> NoObj]
            : r \in {x \in RawForms : ~ParsesToObject(x)}}
    \cup {[net |-> "ok", status |-> 200, body |-> "ok", raw |-> <<"obj">>, obj |-> o]
            : o \in Objects}
    \cup {[net |-> "ok", status |-> 200, body |-> "ok", raw |-> r, obj |-> o]
            : r \in {x \in RawForms : ParsesToObject(x)} \ {<<"obj">>},
              o \in EmbeddedObjects}


(***************************************************************************)
(* Results                                                                 *)
(***************************************************************************)
NoInfo == <<>>
SENTINEL == "INSUFFICIENT_GROUNDED_EVIDENCE"

Result(summary, direction, ids, schools, confidence, note) ==
    [summary |-> summary, direction |-> direction, supporting_ids |-> ids,
     supporting_schools |-> schools, confidence_score |-> confidence,
     note |-> note, free_trial_info |-> NoInfo]

\* The sentinel dict returned on every short-circuit and error path.
Sentinel(note) == Result(SENTINEL, "insufficient_evidence", <<>>, {}, Zero, note)

\* Mutant: one note for every status.
ErrorNotePlain(status) == "API error: " \o ToString(status)

\* error_note of lines 1548-1554.
ErrorNote(status) ==
    LET error_note == "API error: " \o ToString(status)
    IN  IF status = 401 THEN error_note \o " - Invalid API key"
        ELSE IF status = 429 THEN error_note \o " - Rate limit exceeded"
        ELSE IF status = 500 THEN error_note \o " - Server error"
        ELSE error_note

Ids(excerpts) == [i \in 1..Len(excerpts) |-> excerpts[i].id]

\* Mutant: the fallback cites every excerpt of the bundle.
FallbackResultAllExcerpts(selected) ==
    Result("fallback_summary", "mixed", Ids(selected), DistinctSchools(selected),
           Rat(6, 10), "Fallback response - model output was not valid JSON")

\* Lines 1590-1600: the synthetic result when both parses fail.
FallbackResult(selected) ==
    Result("fallback_summary", "mixed",
           Ids(Take(selected, FallbackCited)),
           DistinctSchools(Take(selected, FallbackCited)),
           Rat(6, 10), "Fallback response - model output was not valid JSON")

\* Line 1607: an unhashable direction makes the membership test raise.
DirectionRaises(obj) == obj.direction.kind = "unhashable"

\* Mutant: the direction is taken as reported.
ValidDirectionUnchecked(obj) ==
    IF obj.direction.kind = "string" THEN obj.direction.value ELSE "mixed"

\* Lines 1607-1608.
ValidDirection(obj) ==
    IF obj.direction.kind = "string" /\ obj.direction.value \in allowed_directions
    THEN obj.direction.value
    ELSE "mixed"

\* Line 1614: an unhashable element makes the membership test raise.
IdsRaise(obj) == obj.supporting_ids.kind = "badlist"

\* Mutant: the citation list is not filtered.
ValidIdsUnfiltered(obj, selected) ==
    IF obj.supporting_ids.kind # "list" THEN <<>> ELSE obj.supporting_ids.value

\* Lines 1610-1614.
ValidIds(obj, selected) ==
    IF obj.supporting_ids.kind # "list" THEN <<>>
    ELSE LET provided_ids == Range(Ids(selected))
             Provided(id) == id \in provided_ids
         IN  SelectSeq(obj.supporting_ids.value, Provided)

\* Mutant: the reported school list is kept.
ValidSchoolsAsReported(obj, ids, selected) ==
    IF obj.supporting_schools.kind # "list" THEN {}
    ELSE Range(obj.supporting_schools.value)

\* Lines 1616-1624.
ValidSchools(obj, ids, selected) ==
    IF obj.supporting_schools.kind # "list" THEN {}
    ELSE {selected[i].school : i \in {j \in 1..Len(selected) : selected[j].id \in Range(ids)}}

\* Mutant: the reported confidence is not clamped.
ValidConfidenceUnclamped(obj) ==
    IF obj.confidence_score.kind # "number" THEN Zero
    ELSE obj.confidence_score.value

\* Lines 1626-1629.
ValidConfidence(obj) ==
    IF obj.confidence_score.kind # "number" THEN Zero
    ELSE RatMax(Zero, RatMin(One, obj.confidence_score.value))

TotalSchools(data) == Cardinality({data[i].school : i \in 1..Len(data)})

\* Lines 1639-1648.
HybridConfidence(ids, selected, data, model_confidence) ==
    LET Cited(e) == e.id \in Range(ids)
        supporting_excerpts == SelectSeq(selected, Cited)
    IN  compute_hybrid_confidence(supporting_excerpts, TotalSchools(data),
                                  Len(supporting_excerpts), Len(selected),
                                  model_confidence)

\* An exception inside lines 1602-1649, caught at line 1677.
PostValidateRaises(obj, selected) == DirectionRaises(obj) \/ IdsRaise(obj)

\* Lines 1602-1649 on a parsed dict: the validated result.
PostValidate(obj, selected, data) ==
    LET ids == ValidIds(obj, selected)
    IN  Result(IF obj.summary.kind = "absent" THEN SENTINEL ELSE "service_summary",
               ValidDirection(obj), ids,
               ValidSchools(obj, ids, selected),
               HybridConfidence(ids, selected, data, ValidConfidence(obj)),
               "service_note")

\* Mutant: the parse-failure fallback is logged too.
HandleResponseLogsFallback(resp, selected, data) ==
    IF resp.net = "raise" THEN <<Sentinel("Error during processing"), FALSE>>
    ELSE IF resp.status # 200 THEN <<Sentinel(ErrorNote(resp.status)), FALSE>>
    ELSE IF resp.body = "unreadable"
         THEN <<Sentinel("Error during processing"), FALSE>>
    ELSE IF ParseResponse(resp.raw) = "error"
         THEN <<FallbackResult(selected), TRUE>>
    ELSE IF ParseResponse(resp.raw) = "other"
         THEN <<Sentinel("Error during processing"), FALSE>>
    ELSE IF PostValidateRaises(resp.obj, selected)
         THEN <<Sentinel("Error during processing"), FALSE>>
    ELSE <<PostValidate(resp.obj, selected, data), TRUE>>

\* Lines 1540-1685 after the request was sent: <<result, logged>>, where
\* logged says whether the audit-log write of lines 1653-1673 is reached.
HandleResponse(resp, selected, data) ==
    IF resp.net = "raise" THEN <<Sentinel("Error during processing"), FALSE>>
    ELSE IF resp.status # 200 THEN <<Sentinel(ErrorNote(resp.status)), FALSE>>
    ELSE IF resp.body = "unreadable"
         THEN <<Sentinel("Error during processing"), FALSE>>
    ELSE IF ParseResponse(resp.raw) = "error"
         THEN <<FallbackResult(selected), FALSE>>
    ELSE IF ParseResponse(resp.raw) = "other"
         THEN <<Sentinel("Error during processing"), FALSE>>
    ELSE IF PostValidateRaises(resp.obj, selected)
         THEN <<Sentinel("Error during processing"), FALSE>>
    ELSE <<PostValidate(resp.obj, selected, data), TRUE>>


(***************************************************************************)
(* Prompt size (lines 1482-1516)                                           *)
(***************************************************************************)
\* The words of excerpt['text'][:200]: a word counts once it has started.
PromptTextWords(e) ==
    Min(e.words, (PromptCharsPerExcerpt + e.wlen) \div (e.wlen + 1))

\* One bundle line: id, "|", school (one word), "|", the quoted text.
RECURSIVE BundleWords(_)
BundleWords(excerpts) ==
    IF excerpts = <<>> THEN 0
    ELSE 4 + PromptTextWords(Head(excerpts)) + BundleWords(Tail(excerpts))

\* len(full_prompt.split()) for a query of queryWords >= 1 words.
PromptWords(excerpts, queryWords) ==
    ExampleWords + (2 + queryWords + 1) + BundleWords(excerpts) + InstructionWords

\* Mutant: the bundle is sent whole whatever the estimate.
SentBundleNotShrunk(selected, queryWords) == selected

\* Lines 1509-1512: the bundle that is sent.
SentBundle(selected, queryWords) ==
    IF PromptWords(selected, queryWords) * 13 > TokenBudgetTenths
    THEN Take(selected, ShrinkTo)
    ELSE selected

(***************************************************************************)
(* Inputs of the model                                                     *)
(***************************************************************************)
\* The similarities the embedding service gives the snippets of C1 and of C2.
SimilarityOfC1 == {40}
SimilarityOfC2 == {60}
QueryWordCounts == {4, 2200}

Sentence(words, wlen, sim) == [words |-> words, wlen |-> wlen, sim |-> sim]
Repeat(x, n) == [i \in 1..n |-> x]

\* The texts of a commentary whose snippets have similarity sim: one word of
\* three characters, two such sentences, one usable sentence, MaxSents usable
\* sentences.
Texts(sim) ==
    { <<Sentence(1, 3, sim)>>,
      Repeat(Sentence(1, 3, sim), 2),
      <<Sentence(3, 3, sim)>>,
      Repeat(Sentence(3, 3, sim), MaxSents) }

Commentary(id, school, text) == [id |-> id, school |-> school, text |-> text]

\* commentaries_data as render_search_result_minimal builds it: ids C1, C2 in
\* order, each with a school and a text.
DataSets ==
    {<<>>}
    \cup {<<Commentary("C1", "Advaita", t)>> :
            t \in UNION {Texts(a) : a \in SimilarityOfC1}}
    \cup {<<Commentary("C1", "Advaita", t), Commentary("C2", sc, u)>> :
            t \in UNION {Texts(a) : a \in SimilarityOfC1}, sc \in Schools,
            u \in UNION {Texts(b) \ {<<Sentence(1, 3, b)>>} : b \in SimilarityOfC2}}

\* The evidence of the free-trial runs.
TrialData ==
    <<Commentary("C1", "Advaita", <<Sentence(3, 3, 40)>>),
      Commentary("C2", "Dvaita", <<Sentence(3, 3, 60)>>)>>

(***************************************************************************)
(* State                                                                   *)
(***************************************************************************)
VARIABLES
    pc,                 \* "start", "aggregate", "calling", "done"
    commentaries_data,  \* argument
    queryWords,         \* the number of words of the argument query
    api_key,            \* argument: TRUE when a non-empty key is supplied
    is_free_trial,      \* argument of query_groq_with_usage_tracking
    modelOk,            \* load_embedding_model returns a model
    encodeOk,           \* model.encode succeeds
    usage_count,        \* usage_tracking.json: this user's usage_count
    selected_excerpts,  \* the local selected_excerpts (after the shrink)
    calls,              \* requests sent to the reasoning service
    response,           \* the response received, <<>> before
    result,             \* the dict returned, <<>> before
    log,                \* groq_aggregate_logs.jsonl
    logWritable,        \* the append to the log file succeeds
    search_pc,          \* perform_search: "idle", "hits", "build", "done", "raised"
    hits,               \* zip(scores[0], indices[0]): <<score, idx>> pairs
    top_k,              \* argument of perform_search
    pos,                \* the hit the loop of line 360 is at
    candidate_verses,   \* the accumulators, by verse id
    key_order,          \* the insertion order of candidate_verses
    results,            \* the list returned by perform_search
    runs,               \* calls of perform_search made with these hits
    first_results,      \* what the first of them returned
    usageWritable,      \* save_usage_data can write usage_tracking.json
    attempts,           \* calls this user made of query_groq_with_usage_tracking
    select_pc,          \* select_top_excerpts alone: "idle", "call", "returned"
    select_args,        \* its arguments
    select_returned,    \* the list it returned
    conf_pc,            \* compute_hybrid_confidence alone: "idle", "call",
                        \* "returned", "raised"
    conf_args,          \* its arguments
    conf_returned,      \* the value it returned
    usage_tracking,     \* usage_tracking.json shared by the sessions: the
                        \* usage_count of each user, 0 without a record
    session_pc,         \* each session: "idle", "check", "load", "save"
    usage_data,         \* each session: what its load_usage_data returned
    session_calls,      \* each session: free-trial calls it has begun
    increments          \* each session: calls of increment_user_usage completed

pipeVars ==
    <<pc, commentaries_data, queryWords, api_key, is_free_trial, modelOk,
      encodeOk, usage_count, selected_excerpts, calls, response, result, log,
      logWritable, usageWritable, attempts>>

searchVars ==
    <<search_pc, hits, top_k, pos, candidate_verses, key_order, results, runs,
      first_results>>

selectVars == <<select_pc, select_args, select_returned>>

confVars == <<conf_pc, conf_args, conf_returned>>

sessionVars ==
    <<usage_tracking, session_pc, usage_data, session_calls, increments>>

vars == <<pipeVars, searchVars, selectVars, confVars, sessionVars>>

inputs ==
    <<commentaries_data, queryWords, api_key, is_free_trial, modelOk, encodeOk,
      logWritable, usageWritable>>

NoResult == <<>>
NoResponse == <<>>

NoAccumulators == [k \in {} |-> 0]

\* perform_search is not running.
SearchIdle ==
    /\ search_pc = "idle"
    /\ hits = <<>>
    /\ top_k = 0
    /\ pos = 0
    /\ candidate_verses = NoAccumulators
    /\ key_order = <<>>
    /\ results = <<>>
    /\ runs = 0
    /\ first_results = <<>>

\* select_top_excerpts is not being exercised on its own.
SelectIdle ==
    /\ select_pc = "idle"
    /\ select_args = <<>>
    /\ select_returned = <<>>

\* compute_hybrid_confidence is not being exercised on its own.
ConfidenceIdle ==
    /\ conf_pc = "idle"
    /\ conf_args = <<>>
    /\ conf_returned = <<>>

\* No concurrent sessions are being followed.
SessionsIdle ==
    /\ usage_tracking = <<>>
    /\ session_pc = <<>>
    /\ usage_data = <<>>
    /\ session_calls = <<>>
    /\ increments = <<>>

InitLocals ==
    /\ pc = "start"
    /\ attempts = 1
    /\ selected_excerpts = <<>>
    /\ calls = 0
    /\ response = NoResponse
    /\ result = NoResult
    /\ log = <<>>

\* A call with the user's own key: every evidence set, query size and outcome
\* of the embedding model.
InitDirect ==
    /\ is_free_trial = FALSE
    /\ usage_count = 0
    /\ commentaries_data \in DataSets
    /\ queryWords \in QueryWordCounts
    /\ api_key \in BOOLEAN
    /\ modelOk \in BOOLEAN
    /\ encodeOk \in BOOLEAN
    /\ logWritable = TRUE
    /\ usageWritable = TRUE

\* A free-trial call, at every stored usage count, the log file writable or not.
InitTrial ==
    /\ is_free_trial = TRUE
    /\ usage_count \in 0..FREE_TRIAL_USES
    /\ commentaries_data = TrialData
    /\ queryWords = 4
    /\ api_key \in BOOLEAN
    /\ modelOk = TRUE
    /\ encodeOk = TRUE
    /\ logWritable \in BOOLEAN
    /\ usageWritable \in BOOLEAN

Init ==
    /\ InitLocals /\ (InitDirect \/ InitTrial)
    /\ SearchIdle /\ SelectIdle /\ ConfidenceIdle /\ SessionsIdle

(***************************************************************************)
(* query_groq_with_usage_tracking (lines 153-184)                          *)
(***************************************************************************)
can_use_free_trial == usage_count < FREE_TRIAL_USES

\* new_count of line 168, read after the increment: the count that
\* increment_user_usage returns even when its save failed.
new_count == IF usageWritable THEN usage_count ELSE usage_count + 1

\* Lines 175-179: the usage info added to the result of a free-trial call.
WithTrialInfo(r) ==
    IF is_free_trial
    THEN [r EXCEPT !.free_trial_info = <<FREE_TRIAL_USES - new_count, FREE_TRIAL_USES>>]
    ELSE r

\* increment_user_usage (lines 121-134): the stored count after it; a failing
\* save is swallowed (lines 109-114) and leaves the file as it was.
increment_user_usage == IF usageWritable THEN usage_count + 1 ELSE usage_count

\* Lines 155-168: the quota check and the increment, before the aggregate call.
Track ==
    /\ pc = "start"
    /\ IF is_free_trial /\ ~can_use_free_trial
       THEN /\ result' = Sentinel("Free trial uses exhausted. Please add your own API key.")
            /\ pc' = "done"
            /\ UNCHANGED usage_count
       ELSE /\ usage_count' = IF is_free_trial THEN increment_user_usage ELSE usage_count
            /\ pc' = "aggregate"
            /\ UNCHANGED result
    /\ UNCHANGED <<inputs, selected_excerpts, calls, response, log, attempts,
                   searchVars, selectVars, confVars, sessionVars>>

(***************************************************************************)
(* query_groq_api_aggregate (lines 1430-1685)                              *)
(***************************************************************************)
\* Mutant: the key is not checked.
NoInputKeyUnchecked(key, data) == data = <<>>

\* Line 1441.
NoInput(key, data) == ~key \/ data = <<>>

\* Line 1464: the selection, with the default limits.
Selection ==
    select_top_excerpts(commentaries_data, modelOk, encodeOk, max_excerpts,
                        max_per_school)

\* Lines 1441-1516: the short-circuits, the selection and the prompt.
Prepare ==
    /\ pc = "aggregate"
    /\ IF NoInput(api_key, commentaries_data)
       THEN /\ result' = WithTrialInfo(Sentinel("No commentaries provided or API key missing."))
            /\ pc' = "done"
            /\ UNCHANGED selected_excerpts
       ELSE IF ~modelOk
       THEN /\ result' = WithTrialInfo(Sentinel("Failed to load embedding model for excerpt selection."))
            /\ pc' = "done"
            /\ UNCHANGED selected_excerpts
       ELSE IF Selection = <<>>
       THEN /\ result' = WithTrialInfo(Sentinel("No relevant excerpts found after selection."))
            /\ pc' = "done"
            /\ UNCHANGED selected_excerpts
       ELSE /\ selected_excerpts' =
                 SentBundle(Selection, queryWords)
            /\ pc' = "calling"
            /\ UNCHANGED result
    /\ UNCHANGED <<inputs, usage_count, calls, response, log, attempts,
                   searchVars, selectVars, confVars, sessionVars>>

\* The audit-log record of lines 1654-1665.
LogEntry(resp, r, selected, data) ==
    [selected_excerpt_ids |-> Ids(selected),
     total_schools |-> TotalSchools(data),
     model_confidence |-> ValidConfidence(resp.obj),
     hybrid_confidence |-> r.confidence_score,
     raw_model_output |-> resp.raw,
     final_result |-> r]

\* Mutant: a failed or unparsable response is followed by another request.
SynthesizeWithRetry ==
    /\ pc = "calling"
    /\ \E resp \in Responses :
          LET out == HandleResponse(resp, selected_excerpts, commentaries_data)
          IN  /\ response' = resp
              /\ calls' = calls + 1
              /\ result' = WithTrialInfo(out[1])
              /\ log' = IF out[2] /\ logWritable
                        THEN Append(log, LogEntry(resp, out[1], selected_excerpts, commentaries_data))
                        ELSE log
              /\ pc' = IF out[2] THEN "done" ELSE "calling"
    /\ UNCHANGED <<inputs, usage_count, selected_excerpts, attempts, searchVars,
                   selectVars, confVars, sessionVars>>

\* Lines 1518-1685: the request, the parse, the validation, the log write
\* (a failing write raises and is swallowed) and the return.
Synthesize ==
    /\ pc = "calling"
    /\ \E resp \in Responses :
          LET out == HandleResponse(resp, selected_excerpts, commentaries_data)
          IN  /\ response' = resp
              /\ calls' = calls + 1
              /\ result' = WithTrialInfo(out[1])
              /\ log' = IF out[2] /\ logWritable
                        THEN Append(log, LogEntry(resp, out[1], selected_excerpts, commentaries_data))
                        ELSE log
    /\ pc' = "done"
    /\ UNCHANGED <<inputs, usage_count, selected_excerpts, attempts, searchVars,
                   selectVars, confVars, sessionVars>>

Next == Track \/ Prepare \/ Synthesize

Spec == Init /\ [][Next]_vars


(***************************************************************************)
(* Properties of query_groq_api_aggregate                                  *)
(***************************************************************************)
Done == pc = "done"

\* The ids of the bundle that was sent to the service in this call.
SentIds == IF calls > 0 THEN Range(Ids(selected_excerpts)) ELSE {}

\* The response is a 200 whose content parsed to a JSON object.
ParsedObject ==
    /\ calls > 0
    /\ response.net = "ok" /\ response.status = 200 /\ response.body = "ok"
    /\ ParseResponse(response.raw) = "dict"

\* Post-validation of the parsed object raised: an unhashable direction or
\* an unhashable element of the citation list.
ValidationRaised ==
    /\ ParsedObject
    /\ \/ response.obj.direction.kind = "unhashable"
       \/ response.obj.supporting_ids.kind = "badlist"

\* The call returned the validated service response.
Validated == Done /\ ParsedObject /\ ~ValidationRaised

\* The ids the service cited.
CitedByService ==
    IF ParsedObject /\ response.obj.supporting_ids.kind = "list"
    THEN Range(response.obj.supporting_ids.value)
    ELSE {}

IsSentinel(r) ==
    /\ r.summary = SENTINEL
    /\ r.direction = "insufficient_evidence"
    /\ r.supporting_ids = <<>>
    /\ r.supporting_schools = {}
    /\ RatEq(r.confidence_score, Zero)

\* C1: on every return path, every returned supporting id is the id of an
\* excerpt of the bundle that was sent in this call (after the shrink); an id
\* the service cites that was not sent never appears in the result.
C1_CitedIdsWereSent ==
    Done => Range(result.supporting_ids) \subseteq SentIds

\* C1 witness: the service cited an id that was not sent next to one that was,
\* and the validated result keeps only the latter.
C1_Witness ==
    /\ Validated
    /\ CitedByService \ SentIds # {}
    /\ CitedByService \cap SentIds # {}
    /\ result.supporting_ids # <<>>

\* C2: every returned supporting school is the school of a sent excerpt whose
\* id is among the returned supporting ids.
C2_SchoolsBackedByCitedIds ==
    Done =>
        \A school \in result.supporting_schools :
            \E i \in 1..Len(selected_excerpts) :
                /\ calls > 0
                /\ selected_excerpts[i].school = school
                /\ selected_excerpts[i].id \in Range(result.supporting_ids)

\* C2 witness: the service cited C2, whose school is Dvaita, but C2 was not in
\* the bundle sent; the result names a school, and not Dvaita.
C2_Witness ==
    /\ Validated
    /\ "C2" \in CitedByService \ SentIds
    /\ \E i \in 1..Len(commentaries_data) :
          commentaries_data[i].id = "C2" /\ commentaries_data[i].school = "Dvaita"
    /\ result.supporting_schools = {"Advaita"}

\* C3 (as claimed): after post-validation of a parsed response the supporting
\* schools are exactly the schools of the sent excerpts whose ids survive,
\* whatever the service put or did not put in its own supporting_schools.
C3_SchoolsRecomputed ==
    Validated =>
        result.supporting_schools =
            {selected_excerpts[i].school :
                i \in {j \in 1..Len(selected_excerpts) :
                          selected_excerpts[j].id \in Range(result.supporting_ids)}}

DirectionInvalid ==
    ~(response.obj.direction.kind = "string"
      /\ response.obj.direction.value \in allowed_directions)

\* C4 (as claimed): every result has a direction of the closed set, and a parsed
\* response whose direction is missing or outside the set is returned with
\* direction "mixed".
C4_Original ==
    Done =>
        /\ result.direction \in allowed_directions
        /\ (ParsedObject /\ DirectionInvalid) => result.direction = "mixed"

\* C4 (amended): every result has a direction of the closed set; a parsed
\* response whose direction is missing or outside the set is returned with
\* direction "mixed" when post-validation completes, and as the sentinel, with
\* direction "insufficient_evidence", when post-validation raises.
C4_DirectionClosed ==
    Done =>
        /\ result.direction \in allowed_directions
        /\ (ParsedObject /\ DirectionInvalid) =>
              result.direction =
                  IF ValidationRaised THEN "insufficient_evidence" ELSE "mixed"

\* C4 witness: the service reported a direction outside the set and the result
\* says "mixed".
C4_Witness ==
    /\ Validated
    /\ response.obj.direction = Str("bogus")
    /\ result.direction = "mixed"

\* C5: every result has a confidence within [0, 1].
C5_ConfidenceInUnitInterval ==
    Done =>
        /\ RatLe(Zero, result.confidence_score)
        /\ RatLe(result.confidence_score, One)

\* C5 witness: the service reported a confidence outside [0, 1] and cited sent
\* excerpts.
C5_Witness ==
    /\ Validated
    /\ response.obj.confidence_score.kind = "number"
    /\ ~RatLe(Zero, response.obj.confidence_score.value)
    /\ result.supporting_ids # <<>>

\* C6: a result with no supporting ids has confidence exactly 0.
C6_NoCitationsNoConfidence ==
    (Done /\ result.supporting_ids = <<>>) => RatEq(result.confidence_score, Zero)

\* C6 witness: the service reported confidence 0.5 and cited only ids that
\* were not sent.
C6_Witness ==
    /\ Validated
    /\ response.obj.confidence_score = Num(5, 10)
    /\ CitedByService # {}
    /\ result.supporting_ids = <<>>

\* C7: without credentials, without evidence, or when the selection is empty,
\* the sentinel is returned and the service is never called.
C7_ShortCircuit ==
    (Done /\ (\/ ~api_key
              \/ commentaries_data = <<>>
              \/ Selection = <<>>)) =>
        IsSentinel(result) /\ calls = 0 /\ response = NoResponse

\* C7 witness: credentials, evidence and the embedding model are there, the
\* selection is empty, and the call ended.
C7_Witness ==
    /\ Done
    /\ api_key /\ modelOk /\ commentaries_data # <<>>
    /\ ~is_free_trial
    /\ Selection = <<>>
    /\ IsSentinel(result)

ServiceFailure ==
    /\ calls > 0
    /\ \/ response.net = "raise"
       \/ response.status # 200
       \/ response.body = "unreadable"

\* C8: a network or service failure, or missing credentials, yields the
\* sentinel with a diagnostic note, and the note of a non-200 response tells
\* 401, 429 and 500 apart from each other and from any other status.
C8_FailureIsSentinel ==
    (Done /\ (ServiceFailure \/ ~api_key)) =>
        /\ IsSentinel(result)
        /\ result.note # ""
        /\ (ServiceFailure /\ response.net = "ok" /\ response.status # 200) =>
              result.note =
                  IF response.status = 401 THEN "API error: 401 - Invalid API key"
                  ELSE IF response.status = 429 THEN "API error: 429 - Rate limit exceeded"
                  ELSE IF response.status = 500 THEN "API error: 500 - Server error"
                  ELSE "API error: " \o ToString(response.status)

\* C8 witness: the service answered 429.
C8_Witness ==
    /\ Done
    /\ ServiceFailure
    /\ response.status = 429
    /\ result.note = "API error: 429 - Rate limit exceeded"

MaxHits == 3
NoHit == -1
SimilarityValues == {-90, 70, 90}
TopKs == {1, 2}

Node(type, key) == [type |-> type, key |-> key]

\* _mappings['id_to_node']; index id 8 is not in it.
id_to_node ==
    [idx \in 0..7 |->
        CASE idx = 0 -> Node("verse", "2:47")
          [] idx = 1 -> Node("verse", "3:35")
          [] idx = 2 -> Node("commentary", "2:47_Advaita")
          [] idx = 3 -> Node("concept", "dharma")
          [] idx = 4 -> Node("concept", "karma")
          [] idx = 5 -> Node("verse", "9:99")
          [] idx = 6 -> Node("commentary", "9:99_Dvaita")
          [] idx = 7 -> Node("concept", "moksha")]

IndexIds == 0..8

\* _kg_data['verses'], ['commentaries'], ['concepts'].  The membership list
\* of karma names 2:47 twice, as the loader (lines 283-290) builds it from a
\* data file that lists the verse twice.
verses == {"2:47", "3:35"}
commentaries ==
    [k \in {"2:47_Advaita"} |-> [school |-> "Advaita", verse_id |-> "2:47"]]
concepts ==
    [t \in {"dharma", "karma"} |->
        IF t = "dharma" THEN [mentioned_in |-> <<"2:47", "3:35">>]
        ELSE [mentioned_in |-> <<"2:47", "2:47">>]]

\* The hit lists the index returns: distinct vectors, best first, then the
\* padding of "no result" entries.
IsHitList(h) ==
    /\ \A i, j \in 1..Len(h) : (i < j /\ h[i][2] # NoHit) => h[i][2] # h[j][2]
    /\ \A i \in 1..Len(h) : i < Len(h) =>
          /\ h[i][2] # NoHit
          /\ h[i + 1][2] # NoHit => h[i][1] >= h[i + 1][1]
    /\ \A i \in 1..Len(h) : h[i][2] = NoHit => h[i][1] = -90

HitLists ==
    {h \in SeqsUpTo(SimilarityValues \X (IndexIds \cup {NoHit}), MaxHits) : IsHitList(h)}

Accumulator(scores, paths, cs, support) ==
    [scores |-> scores, provenance_paths |-> paths, concepts |-> cs,
     support_count |-> support]

\* The defaultdict factory of lines 348-353.
NewAccumulator == Accumulator(<<>>, <<>>, {}, 0)

\* Mutant: a concept hit weighs as much as a commentary hit.
WeightConceptAsCommentary(type) == IF type = "verse" THEN 10 ELSE 9

\* The weight of a hit, in tenths: lines 368, 376 and 386.
Weight(type) ==
    IF type = "verse" THEN 10 ELSE IF type = "commentary" THEN 9 ELSE 8

\* One contribution to the accumulator of verse_id (lines 368-370, 376-380,
\* 386-391); concept is {} or the singleton of the contributing term.
Contribute(cv, verse_id, contribution, path, concept) ==
    LET old == IF verse_id \in DOMAIN cv THEN cv[verse_id] ELSE NewAccumulator
        new == Accumulator(Append(old.scores, contribution),
                           Append(old.provenance_paths, path),
                           old.concepts \cup concept,
                           old.support_count + 1)
    IN  [k \in DOMAIN cv \cup {verse_id} |-> IF k = verse_id THEN new ELSE cv[k]]

Inserted(order, verse_id) ==
    IF verse_id \in Range(order) THEN order ELSE Append(order, verse_id)

\* The provenance path of line 388.
ConceptPath(term, verse_id) ==
    "Query -> Concept(" \o term \o ") -> Verse(" \o verse_id \o ")"

\* Mutant: only the first entry of the membership list is followed.
ContributeConceptFirstEntry(acc, term, mentioned_in, j, score) ==
    IF j > 1 \/ mentioned_in = <<>> THEN acc
    ELSE <<Contribute(acc[1], mentioned_in[1], score * 8,
                      ConceptPath(term, mentioned_in[1]), {term}),
           Inserted(acc[2], mentioned_in[1])>>

\* The loop of lines 385-391 over concept.mentioned_in, from entry j.
RECURSIVE ContributeConcept(_, _, _, _, _)
ContributeConcept(acc, term, mentioned_in, j, score) ==
    IF j > Len(mentioned_in) THEN acc
    ELSE LET verse_id == mentioned_in[j]
         IN  ContributeConcept(
                 <<Contribute(acc[1], verse_id, score * Weight("concept"),
                              ConceptPath(term, verse_id),
                              {term}),
                   Inserted(acc[2], verse_id)>>,
                 term, mentioned_in, j + 1, score)

\* One iteration of the loop of line 360 on a resolvable index id:
\* <<candidate_verses, key_order>> after it.
ApplyHit(cv, order, score, idx) ==
    LET node == id_to_node[idx]
    IN  IF node.type = "verse"
        THEN <<Contribute(cv, node.key, score * Weight("verse"),
                          "Query -> Verse(" \o node.key \o ")", {}),
               Inserted(order, node.key)>>
        ELSE IF node.type = "commentary"
        THEN IF node.key \in DOMAIN commentaries
             THEN LET commentary == commentaries[node.key]
                  IN  <<Contribute(cv, commentary.verse_id,
                                   score * Weight("commentary"),
                                   "Query -> Commentary(" \o commentary.school
                                       \o ") -> Verse(" \o commentary.verse_id \o ")",
                                   {}),
                        Inserted(order, commentary.verse_id)>>
             ELSE <<cv, order>>
        ELSE IF node.key \in DOMAIN concepts
             THEN ContributeConcept(<<cv, order>>, node.key,
                                    concepts[node.key].mentioned_in, 1, score)
             ELSE <<cv, order>>

RECURSIVE SumSeq(_)
SumSeq(q) == IF q = <<>> THEN 0 ELSE Head(q) + SumSeq(Tail(q))

\* The provenance paths a concept hit leaves.
ConceptPaths ==
    UNION {{ConceptPath(t, concepts[t].mentioned_in[j]) :
               j \in 1..Len(concepts[t].mentioned_in)} : t \in DOMAIN concepts}

\* Mutant: the concept boost is 0.1 per concept mention, repeated or not.
FinalScoreBoostPerMention(data) ==
    LET n == Len(data.scores)
        mentions == Cardinality({i \in 1..Len(data.provenance_paths) :
                                    data.provenance_paths[i] \in ConceptPaths})
        boosts == mentions * 100 + Min(data.support_count * 50, 200)
    IN  IF n = 0 THEN Rat(boosts, 1000)
        ELSE Rat(SumSeq(data.scores) + n * boosts, 1000 * n)

\* Lines 400-403, in thousandths over the number of contributions.
FinalScore(data) ==
    LET n == Len(data.scores)
        concept_boost == Cardinality(data.concepts) * 100
        support_boost == Min(data.support_count * 50, 200)
    IN  IF n = 0 THEN Rat(concept_boost + support_boost, 1000)
        ELSE Rat(SumSeq(data.scores) + n * (concept_boost + support_boost), 1000 * n)

\* Lines 408-415.
SearchResult(verse_id, data) ==
    [verse |-> verse_id, score |-> FinalScore(data),
     provenance_path |-> Range(data.provenance_paths),
     related_concepts |-> data.concepts,
     support_count |-> data.support_count]

\* Lines 394-416: one result per accumulator whose verse the store holds.
RECURSIVE BuildResults(_, _)
BuildResults(cv, order) ==
    IF order = <<>> THEN <<>>
    ELSE (IF Head(order) \in verses
          THEN <<SearchResult(Head(order), cv[Head(order)])>>
          ELSE <<>>)
         \o BuildResults(cv, Tail(order))

\* results.sort(key=score, reverse=True): stable, descending.
RECURSIVE InsertByScore(_, _)
InsertByScore(sorted, r) ==
    IF sorted = <<>> THEN <<r>>
    ELSE IF RatLe(r.score, Head(sorted).score)
         THEN <<Head(sorted)>> \o InsertByScore(Tail(sorted), r)
         ELSE <<r>> \o sorted

\* Mutant: the results are left in accumulator order.
SortByScoreSkipped(sorted, rest) == sorted \o rest

RECURSIVE SortByScore(_, _)
SortByScore(sorted, rest) ==
    IF rest = <<>> THEN sorted
    ELSE SortByScore(InsertByScore(sorted, Head(rest)), Tail(rest))

SearchInit ==
    /\ search_pc = "hits"
    /\ hits \in HitLists
    /\ top_k \in TopKs
    /\ pos = 1
    /\ candidate_verses = NoAccumulators
    /\ key_order = <<>>
    /\ results = <<>>
    /\ runs = 1
    /\ first_results = <<>>

\* The pipeline is not running.
PipelineIdle ==
    /\ pc = "idle"
    /\ commentaries_data = <<>>
    /\ queryWords = 0
    /\ api_key = FALSE
    /\ is_free_trial = FALSE
    /\ modelOk = TRUE
    /\ encodeOk = TRUE
    /\ usage_count = 0
    /\ selected_excerpts = <<>>
    /\ calls = 0
    /\ response = NoResponse
    /\ result = NoResult
    /\ log = <<>>
    /\ logWritable = TRUE
    /\ usageWritable = TRUE
    /\ attempts = 0

\* Lines 360-362: a "no result" entry is skipped.
SkipNoHit ==
    /\ search_pc = "hits"
    /\ pos <= Len(hits)
    /\ hits[pos][2] = NoHit
    /\ pos' = pos + 1
    /\ UNCHANGED <<search_pc, hits, top_k, candidate_verses, key_order, results, runs,
                   first_results, pipeVars, selectVars, confVars, sessionVars>>

\* Line 364: an index id that is not in id_to_node raises KeyError.
LookupFails ==
    /\ search_pc = "hits"
    /\ pos <= Len(hits)
    /\ hits[pos][2] # NoHit
    /\ hits[pos][2] \notin DOMAIN id_to_node
    /\ search_pc' = "raised"
    /\ UNCHANGED <<hits, top_k, pos, candidate_verses, key_order, results, runs,
                   first_results, pipeVars, selectVars, confVars, sessionVars>>

\* Lines 364-391: one hit is resolved and accumulated.
ProcessHit ==
    /\ search_pc = "hits"
    /\ pos <= Len(hits)
    /\ hits[pos][2] \in DOMAIN id_to_node
    /\ LET after == ApplyHit(candidate_verses, key_order, hits[pos][1], hits[pos][2])
       IN  /\ candidate_verses' = after[1]
           /\ key_order' = after[2]
    /\ pos' = pos + 1
    /\ UNCHANGED <<search_pc, hits, top_k, results, runs, first_results,
                   pipeVars, selectVars, confVars, sessionVars>>

\* Lines 393-419: the results are built, sorted and cut to top_k.
Rank ==
    /\ search_pc = "hits"
    /\ pos > Len(hits)
    /\ results' = Take(SortByScore(<<>>, BuildResults(candidate_verses, key_order)), top_k)
    /\ search_pc' = "done"
    /\ UNCHANGED <<hits, top_k, pos, candidate_verses, key_order, runs, first_results,
                   pipeVars, selectVars, confVars, sessionVars>>

\* Mutant: the second call goes on with the accumulators of the first.
SearchAgainSharedAccumulators ==
    /\ search_pc = "done"
    /\ runs = 1
    /\ runs' = 2
    /\ first_results' = results
    /\ search_pc' = "hits"
    /\ pos' = 1
    /\ results' = <<>>
    /\ UNCHANGED <<hits, top_k, candidate_verses, key_order, pipeVars,
                   selectVars, confVars, sessionVars>>

\* The caller calls perform_search once more with the same raw hits and the
\* same Knowledge Store: lines 348-353 build fresh accumulators.
SearchAgain ==
    /\ search_pc = "done"
    /\ runs = 1
    /\ runs' = 2
    /\ first_results' = results
    /\ search_pc' = "hits"
    /\ pos' = 1
    /\ candidate_verses' = NoAccumulators
    /\ key_order' = <<>>
    /\ results' = <<>>
    /\ UNCHANGED <<hits, top_k, pipeVars, selectVars, confVars, sessionVars>>

SearchNext == SkipNoHit \/ LookupFails \/ ProcessHit \/ Rank \/ SearchAgain

\* perform_search is entered with fresh locals while no synthesis is running.
InitSearch ==
    SearchInit /\ PipelineIdle /\ SelectIdle /\ ConfidenceIdle /\ SessionsIdle

SpecSearch == InitSearch /\ [][SearchNext]_vars


(***************************************************************************)
(* Properties of perform_search                                            *)
(***************************************************************************)
SearchDone == search_pc = "done"

HitNode(i) == id_to_node[hits[i][2]]

\* The contributions the hits make to verse v, each <<hit, entry, weight in
\* tenths>>: a direct hit, a hit on a commentary the verse owns, and one per
\* entry of a concept hit's membership list that names the verse.
ContributionsTo(v) ==
    {<<i, 0, 10>> : i \in {h \in 1..Len(hits) :
        /\ hits[h][2] \in DOMAIN id_to_node
        /\ HitNode(h) = Node("verse", v)}}
    \cup
    {<<i, 0, 9>> : i \in {h \in 1..Len(hits) :
        /\ hits[h][2] \in DOMAIN id_to_node
        /\ HitNode(h).type = "commentary"
        /\ HitNode(h).key \in DOMAIN commentaries
        /\ commentaries[HitNode(h).key].verse_id = v}}
    \cup
    UNION {{<<i, j, 8>> : j \in {e \in 1..Len(concepts[HitNode(i).key].mentioned_in) :
                                    concepts[HitNode(i).key].mentioned_in[e] = v}} :
              i \in {h \in 1..Len(hits) :
                        /\ hits[h][2] \in DOMAIN id_to_node
                        /\ HitNode(h).type = "concept"
                        /\ HitNode(h).key \in DOMAIN concepts}}

ContributingConcepts(v) == {HitNode(c[1]).key : c \in {x \in ContributionsTo(v) : x[3] = 8}}

\* The sum, in thousandths, of a set of contributions.
RECURSIVE ContributionSum(_)
ContributionSum(C) ==
    IF C = {} THEN 0
    ELSE LET c == CHOOSE x \in C : TRUE
         IN  hits[c[1]][1] * c[3] + ContributionSum(C \ {c})

\* C10: the score of every returned verse is the mean of its contributions
\* (similarity, 0.9 * similarity, 0.8 * similarity) plus 0.1 per distinct
\* contributing concept plus min(0.05 * support_count, 0.2), the support count
\* being the number of contributions.
C10_ScoreFormula ==
    SearchDone =>
        \A n \in 1..Len(results) :
            LET r == results[n]
                C == ContributionsTo(r.verse)
                count == Cardinality(C)
            IN  /\ count > 0
                /\ r.support_count = count
                /\ RatEq(r.score,
                         RatAdd(RatAdd(Rat(ContributionSum(C), 1000 * count),
                                       Rat(Cardinality(ContributingConcepts(r.verse)), 10)),
                                RatMin(Rat(5 * count, 100), Rat(2, 10))))

\* C10 witness: a returned verse with a direct hit, a commentary hit and a
\* concept hit.
C10_Witness ==
    /\ SearchDone
    /\ \E n \in 1..Len(results) :
          /\ results[n].verse = "2:47"
          /\ results[n].support_count = 3
          /\ results[n].related_concepts = {"dharma"}
          /\ "Query -> Verse(2:47)" \in results[n].provenance_path
          /\ "Query -> Commentary(Advaita) -> Verse(2:47)" \in results[n].provenance_path

\* The verses that get a result: those of the store with a contribution.
CandidateVerses == {v \in verses : ContributionsTo(v) # {}}

ReturnedVerses == {results[n].verse : n \in 1..Len(results)}

\* C11: the results are one per distinct candidate verse, in non-increasing
\* score order, at most top_k of them, and no candidate left out by the cut
\* scores strictly higher than a returned one.
C11_RankedTopK ==
    SearchDone =>
        /\ Len(results) = Min(top_k, Cardinality(CandidateVerses))
        /\ ReturnedVerses \subseteq CandidateVerses
        /\ \A m, n \in 1..Len(results) :
               m < n => /\ results[m].verse # results[n].verse
                        /\ RatLe(results[n].score, results[m].score)
        /\ \A v \in CandidateVerses \ ReturnedVerses :
               \A n \in 1..Len(results) :
                   RatLe(FinalScore(candidate_verses[v]), results[n].score)

\* C11 witness: the cut to top_k left out a candidate that scores strictly
\* lower than the returned one although it was accumulated first.
C11_Witness ==
    /\ SearchDone
    /\ top_k = 1
    /\ Len(results) = 1
    /\ Len(key_order) = 2
    /\ key_order[2] = results[1].verse
    /\ \E v \in CandidateVerses \ ReturnedVerses :
           ~RatLe(results[1].score, FinalScore(candidate_verses[v]))

\* C12 (as claimed): every result's score is non-negative.
C12_ScoresNonNegative ==
    SearchDone => \A n \in 1..Len(results) : RatLe(Zero, results[n].score)

\* The contributions a concept hit makes to verse v, one per mention.
ConceptMentions(v) == {c \in ContributionsTo(v) : c[3] = 8}

\* What is left of a result's score without the mean of its contributions and
\* the support boost.
ConceptBoost(r) ==
    LET C == ContributionsTo(r.verse)
        count == Cardinality(C)
    IN  RatAdd(r.score,
               RatNeg(RatAdd(Rat(ContributionSum(C), 1000 * count),
                             RatMin(Rat(5 * count, 100), Rat(2, 10)))))

\* C13: the concept boost of a result is 0.1 per distinct contributing
\* concept, however often the concept reaches the verse, while every mention
\* counts in the support count.
C13_BoostPerDistinctConcept ==
    SearchDone =>
        \A n \in 1..Len(results) :
            LET r == results[n]
            IN  /\ r.related_concepts = ContributingConcepts(r.verse)
                /\ RatEq(ConceptBoost(r), Rat(Cardinality(r.related_concepts), 10))
                /\ r.support_count = Cardinality(ContributionsTo(r.verse))
                /\ Cardinality(ConceptMentions(r.verse)) <= r.support_count

\* C13 witness: one concept reached the verse twice and the boost is 0.1.
C13_Witness ==
    /\ SearchDone
    /\ \E n \in 1..Len(results) :
          /\ results[n].related_concepts = {"karma"}
          /\ Cardinality(ConceptMentions(results[n].verse)) = 2
          /\ results[n].support_count >= 2
          /\ RatEq(ConceptBoost(results[n]), Rat(1, 10))

RealHits == LET Real(h) == h[2] # NoHit IN SelectSeq(hits, Real)

\* C15: for the raw hits (verse 2:47, 0.9), (concept dharma, 0.7) and room
\* for two results, exactly two results come back, 2:47 strictly before 3:35,
\* 2:47 with its direct path, 3:35 with the path through dharma, each path
\* once.
C15_Scenario ==
    (SearchDone /\ RealHits = <<<<90, 0>>, <<70, 3>>>> /\ top_k >= 2) =>
        /\ Len(results) = 2
        /\ results[1].verse = "2:47"
        /\ results[2].verse = "3:35"
        /\ ~RatLe(results[1].score, results[2].score)
        /\ results[1].provenance_path =
              {"Query -> Verse(2:47)", ConceptPath("dharma", "2:47")}
        /\ results[2].provenance_path = {ConceptPath("dharma", "3:35")}

\* C15 witness: the scenario ran to its end.
C15_Witness ==
    /\ SearchDone
    /\ RealHits = <<<<90, 0>>, <<70, 3>>>>
    /\ top_k = 2
    /\ Len(results) = 2
    /\ RatEq(results[1].score, Rat(93, 100))
    /\ RatEq(results[2].score, Rat(71, 100))

\* A hit the mappings and the Knowledge Store resolve.
Resolvable(h) ==
    /\ h[2] # NoHit
    /\ h[2] \in DOMAIN id_to_node
    /\ LET node == id_to_node[h[2]]
       IN  IF node.type = "verse" THEN node.key \in verses
           ELSE IF node.type = "commentary" THEN node.key \in DOMAIN commentaries
           ELSE node.key \in DOMAIN concepts

\* The accumulators after the hits hs, from acc = <<candidate_verses, order>>.
RECURSIVE AggregateHits(_, _)
AggregateHits(acc, hs) ==
    IF hs = <<>> THEN acc
    ELSE AggregateHits(ApplyHit(acc[1], acc[2], Head(hs)[1], Head(hs)[2]), Tail(hs))

\* What the search returns for the resolvable hits alone.
ResultsOfResolvableHits ==
    LET acc == AggregateHits(<<NoAccumulators, <<>>>>, SelectSeq(hits, Resolvable))
    IN  Take(SortByScore(<<>>, BuildResults(acc[1], acc[2])), top_k)

\* A finished search returns what the resolvable hits alone give: a hit on a
\* key without a record leaves no trace in the results.
NoRecordHitsLeaveNoTrace == SearchDone => results = ResultsOfResolvableHits

\* C16 (as claimed): a hit that cannot be resolved never makes the search
\* raise, and the search returns what the remaining hits alone give.
C16_UnresolvedDropped ==
    /\ search_pc # "raised"
    /\ NoRecordHitsLeaveNoTrace


(***************************************************************************)
(* Properties of the response parser                                       *)
(***************************************************************************)
\* The service answered 200 with text that is not JSON as a whole and holds
\* at least one brace-delimited JSON object.
TextWithEmbeddedObject ==
    /\ calls > 0
    /\ response.net = "ok" /\ response.status = 200 /\ response.body = "ok"
    /\ StrictParse(response.raw) = "error"
    /\ ObjPositions(response.raw) # {}

ReturnedFallback ==
    result.note = "Fallback response - model output was not valid JSON"

\* Text around exactly one embedded object: the object is accepted and
\* post-validated.
SingleEmbeddedObjectAccepted ==
    (Done /\ TextWithEmbeddedObject /\ Cardinality(ObjPositions(response.raw)) = 1) =>
        /\ ParsedObject
        /\ ~ReturnedFallback
        /\ ~ValidationRaised => result.note = "service_note"

\* C19 (as claimed): non-JSON text that holds an embedded brace-delimited
\* object, whatever text or braces follow it, is accepted as that object and
\* post-validated, not answered with the synthetic fallback.
C19_EmbeddedObjectAccepted ==
    (Done /\ TextWithEmbeddedObject) => (ParsedObject /\ ~ReturnedFallback)


(***************************************************************************)
(* select_top_excerpts on its own (lines 1319-1399), for every value of    *)
(* its two limits                                                          *)
(***************************************************************************)
\* Similarities: two below the threshold of line 1391 and one above.
SelectSimilarities == {5, 8, 40}

\* The texts of an evidence item: one word of three characters ("abc", too
\* short for a snippet and for the fallback), one word of five characters (a
\* snippet, but too short for the fallback), two words of three characters in
\* two sentences (no snippet, but long enough for the fallback), one usable
\* sentence, two of them, MaxSents of them.
SelectTexts ==
    {<<Sentence(1, 3, 5)>>, <<Sentence(1, 5, 5)>>, Repeat(Sentence(1, 3, 5), 2)}
    \cup {<<Sentence(3, 3, a)>> : a \in SelectSimilarities \ {8}}
    \cup {Repeat(Sentence(3, 3, a), 2) : a \in SelectSimilarities \ {5}}
    \cup {Repeat(Sentence(3, 3, a), MaxSents) : a \in SelectSimilarities \ {40}}

SelectId(i) == "C" \o ToString(i)

\* Up to MaxItems evidence items with ids C1, C2, ... in order.
SelectData ==
    UNION {{[i \in 1..n |-> Commentary(SelectId(i), sc[i], tx[i])] :
               sc \in [1..n -> Schools], tx \in [1..n -> SelectTexts]} :
           n \in 1..MaxItems}

\* The values tried for max_excerpts and for max_per_school: the small ones
\* and the default.
ExcerptLimits == (0..MaxLimit) \cup {max_excerpts}
SchoolLimits == (0..MaxLimit) \cup {max_per_school}

SelectArgs ==
    [commentaries_data : SelectData, encodeOk : BOOLEAN,
     max_excerpts : ExcerptLimits, max_per_school : SchoolLimits]

InitSelect ==
    /\ select_pc = "call"
    /\ select_args \in SelectArgs
    /\ select_returned = <<>>
    /\ PipelineIdle
    /\ SearchIdle
    /\ ConfidenceIdle
    /\ SessionsIdle

\* One call of select_top_excerpts with a loaded embedding model.
SelectExcerpts ==
    /\ select_pc = "call"
    /\ select_returned' =
          select_top_excerpts(select_args.commentaries_data, TRUE,
                              select_args.encodeOk, select_args.max_excerpts,
                              select_args.max_per_school)
    /\ select_pc' = "returned"
    /\ UNCHANGED <<select_args, pipeVars, searchVars, confVars, sessionVars>>

SelectNext == SelectExcerpts

SpecSelect == InitSelect /\ [][SelectNext]_vars


(***************************************************************************)
(* Properties of select_top_excerpts                                       *)
(***************************************************************************)
SelectReturned == select_pc = "returned"

\* The excerpts the capped loop of lines 1326-1355 builds for the call.
SelectCapped ==
    CappedExcerpts(<<>>, select_args.commentaries_data, 1, select_args.max_per_school)

\* The candidates of the call, before ranking.
SelectCandidates ==
    Candidates(select_args.commentaries_data, select_args.max_per_school)

\* C17: on the capped path the returned list holds at most max_per_school
\* excerpts of any one school, whatever the limits and however many evidence
\* items the school's snippets come from.
C17_PerSchoolCap ==
    (SelectReturned /\ SelectCapped # <<>>) =>
        \A school \in Schools :
            SchoolCount(select_returned, school) <= select_args.max_per_school

\* C17 witness: a school is at its cap with excerpts of two evidence items,
\* and a usable sentence of that school was left out.
C17_Witness ==
    /\ SelectReturned
    /\ SelectCapped # <<>>
    /\ \E school \in Schools :
          /\ SchoolCount(select_returned, school) = select_args.max_per_school
          /\ \E m, n \in 1..Len(select_returned) :
                /\ select_returned[m].school = school
                /\ select_returned[n].school = school
                /\ select_returned[m].src # select_returned[n].src
          /\ \E i \in 1..Len(select_args.commentaries_data) :
                LET c == select_args.commentaries_data[i]
                IN  /\ c.school = school
                    /\ Len(c.text) = 2
                    /\ c.text[2].words = 3
                    /\ \A n \in 1..Len(select_returned) :
                           ~(select_returned[n].src = i /\ select_returned[n].k = 2)

\* The low-similarity return of lines 1391-1393 is taken.
LowSimilarityReturn ==
    /\ select_args.encodeOk
    /\ SelectCandidates # <<>>
    /\ \/ select_args.max_excerpts = 0
       \/ \A n \in 1..Len(SelectCandidates) : SelectCandidates[n].sim < LowSimThreshold

\* Off the low-similarity return the list is within max_excerpts, and on it
\* within the larger of max_excerpts and 8.
WithinLimitOffLowSimilarity ==
    SelectReturned =>
        /\ ~LowSimilarityReturn => Len(select_returned) <= select_args.max_excerpts
        /\ Len(select_returned) <= Max(select_args.max_excerpts, LowSimCount)

\* C18 (as claimed): on every path the returned list holds at most
\* max_excerpts excerpts, whatever max_excerpts is.
C18_WithinMaxExcerpts ==
    SelectReturned => Len(select_returned) <= select_args.max_excerpts


(***************************************************************************)
(* One user's free-trial attempts, one after the other (lines 116-184 and  *)
(* the loop of test_free_trial.py)                                         *)
(***************************************************************************)
\* get_remaining_free_uses (lines 148-151).
get_remaining_free_uses == Max(0, FREE_TRIAL_USES - usage_count)

\* A user without a usage record starts a series of free-trial calls; the
\* usage file can be written or not, the audit log cannot and stays empty.
InitTrialSequence ==
    /\ InitLocals
    /\ is_free_trial = TRUE
    /\ usage_count = 0
    /\ commentaries_data = TrialData
    /\ queryWords = 4
    /\ api_key \in BOOLEAN
    /\ modelOk = TRUE
    /\ encodeOk = TRUE
    /\ logWritable = FALSE
    /\ usageWritable \in BOOLEAN
    /\ SearchIdle
    /\ SelectIdle
    /\ ConfidenceIdle
    /\ SessionsIdle

\* One turn of the loop of test_free_trial.py (lines 79-85): the guarded
\* increment without a call of the service.
TestUse ==
    /\ pc = "start"
    /\ usage_count' = IF can_use_free_trial THEN increment_user_usage ELSE usage_count
    /\ pc' = "done"
    /\ UNCHANGED <<inputs, selected_excerpts, calls, response, result, log, attempts,
                   searchVars, selectVars, confVars, sessionVars>>

\* The user asks for another summary (lines 1733-1739): the wrapper is called
\* again, with fresh locals, on the same usage file.
NextAttempt ==
    /\ pc = "done"
    /\ attempts < MaxAttempts
    /\ attempts' = attempts + 1
    /\ pc' = "start"
    /\ selected_excerpts' = <<>>
    /\ response' = NoResponse
    /\ result' = NoResult
    /\ UNCHANGED <<inputs, usage_count, calls, log, searchVars, selectVars, confVars, sessionVars>>

TrialNext == Track \/ Prepare \/ Synthesize \/ TestUse \/ NextAttempt

SpecTrial == InitTrialSequence /\ [][TrialNext]_vars


(***************************************************************************)
(* Properties of the free-trial quota                                      *)
(***************************************************************************)
\* C20 (as claimed): after any sequence of guarded attempts of one user the
\* stored usage count is at most FREE_TRIAL_USES, the reasoning service was
\* called at most FREE_TRIAL_USES times in free-trial mode, and the remaining
\* uses are FREE_TRIAL_USES minus the count, never below zero.
C20_TrialQuota ==
    /\ usage_count <= FREE_TRIAL_USES
    /\ calls <= FREE_TRIAL_USES
    /\ get_remaining_free_uses =
          (IF usage_count >= FREE_TRIAL_USES THEN 0 ELSE FREE_TRIAL_USES - usage_count)

\* While the usage file can be written the quota holds, and the count is the
\* number of attempts that passed the guard.
QuotaHoldsWhileSaved ==
    usageWritable =>
        /\ C20_TrialQuota
        /\ calls <= usage_count
        /\ usage_count <= attempts


(***************************************************************************)
(* Properties of the parse-failure fallback and of the request             *)
(***************************************************************************)
\* The service answered 200 with content that neither parses as JSON nor
\* holds a brace block that does.
BothParsesFailed ==
    /\ calls > 0
    /\ response.net = "ok" /\ response.status = 200 /\ response.body = "ok"
    /\ StrictParse(response.raw) = "error"
    /\ StrictParse(extract_json_from_text(response.raw)) = "error"

\* The first FallbackCited excerpts of the bundle that was sent.
FirstSent ==
    [i \in 1..Min(FallbackCited, Len(selected_excerpts)) |-> selected_excerpts[i]]

\* C21: when both parses of the response fail the call returns the fallback:
\* direction "mixed", the ids of the first 3 excerpts of the bundle that was
\* sent (fewer if fewer were sent), the schools of those same excerpts,
\* confidence exactly 0.6 and the note that the output was not valid JSON.
C21_ParseFailureFallback ==
    (Done /\ BothParsesFailed) =>
        /\ result.direction = "mixed"
        /\ result.supporting_ids = [i \in 1..Len(FirstSent) |-> FirstSent[i].id]
        /\ result.supporting_schools = {FirstSent[i].school : i \in 1..Len(FirstSent)}
        /\ result.confidence_score = <<3, 5>>
        /\ result.note = "Fallback response - model output was not valid JSON"

\* C21 witness: more than 3 excerpts were sent, of two schools, and the
\* fallback cites three of them and names only their school.
C21_Witness ==
    /\ Done
    /\ BothParsesFailed
    /\ Len(selected_excerpts) > FallbackCited
    /\ Len(result.supporting_ids) = FallbackCited
    /\ DistinctSchools(selected_excerpts) \ result.supporting_schools # {}

\* The response is not a parsed object: the request raised, the status is not
\* 200, the body is unreadable, or the content is not a JSON object.
FailedOrMalformed ==
    calls > 0 /\ (ServiceFailure \/ ParseResponse(response.raw) # "dict")

\* C22: in one invocation the reasoning service is called at most once; once
\* the request was made the invocation has returned, so a failed, timed-out,
\* non-200 or malformed response is never followed by a second request.
C22_AtMostOneRequest ==
    /\ calls <= 1
    /\ calls = 1 => Done

\* C22 witness: the one request timed out and the call returned the sentinel.
C22_Witness ==
    /\ Done
    /\ calls = 1
    /\ FailedOrMalformed
    /\ response.net = "raise"
    /\ IsSentinel(result)


(***************************************************************************)
(* compute_hybrid_confidence on its own (lines 1401-1424), for every       *)
(* combination of its arguments                                            *)
(***************************************************************************)
\* The excerpts that can be cited: one per school.
SupportingExcerpts ==
    {[id |-> "C1", school |-> "Advaita"], [id |-> "C2", school |-> "Dvaita"],
     [id |-> "C3", school |-> "Vishishtadvaita"]}

\* model_confidence: None, or a number within or above [0, 1].
ModelConfidences == {NoConfidence, Rat(0, 1), Rat(1, 2), Rat(5, 2)}

ConfidenceArgs ==
    [supporting_excerpts : SeqsUpTo(SupportingExcerpts, MaxSupport),
     total_schools : 0..(CoverageCap + 1),
     support_count : 0..MaxSupport,
     N : 0..MaxSupport,
     model_confidence : ModelConfidences]

InitConfidence ==
    /\ conf_pc = "call"
    /\ conf_args \in ConfidenceArgs
    /\ conf_returned = <<>>
    /\ PipelineIdle
    /\ SearchIdle
    /\ SelectIdle
    /\ SessionsIdle

\* One call of compute_hybrid_confidence; the divisions of lines 1409 and
\* 1412 raise ZeroDivisionError on a zero divisor.
ComputeConfidence ==
    /\ conf_pc = "call"
    /\ IF /\ conf_args.supporting_excerpts # <<>>
          /\ (Min(conf_args.total_schools, CoverageCap) = 0 \/ conf_args.N = 0)
       THEN /\ conf_pc' = "raised"
            /\ UNCHANGED conf_returned
       ELSE /\ conf_pc' = "returned"
            /\ conf_returned' =
                  compute_hybrid_confidence(conf_args.supporting_excerpts,
                                            conf_args.total_schools,
                                            conf_args.support_count, conf_args.N,
                                            conf_args.model_confidence)
    /\ UNCHANGED <<conf_args, pipeVars, searchVars, selectVars, sessionVars>>

ConfidenceNext == ComputeConfidence

SpecConfidence == InitConfidence /\ [][ConfidenceNext]_vars


(***************************************************************************)
(* Properties of compute_hybrid_confidence                                 *)
(***************************************************************************)
ConfidenceReturned == conf_pc = "returned"

\* The distinct schools among the cited excerpts of the call.
CitedSchoolCount ==
    Cardinality({conf_args.supporting_excerpts[i].school :
                    i \in 1..Len(conf_args.supporting_excerpts)})

\* computed = 0.2 * coverage + 0.1 * support_strength as a fraction of
\* integers: numerator and denominator.
ComputedNum ==
    2 * CitedSchoolCount * conf_args.N
    + conf_args.support_count * Min(conf_args.total_schools, 4)

ComputedDen == 10 * Min(conf_args.total_schools, 4) * conf_args.N

\* final = 0.5 * external + 0.5 * computed with a numeric external value,
\* computed without one.
FinalNum ==
    IF conf_args.model_confidence # NoConfidence
    THEN conf_args.model_confidence[1] * ComputedDen
         + ComputedNum * conf_args.model_confidence[2]
    ELSE ComputedNum

FinalDen ==
    IF conf_args.model_confidence # NoConfidence
    THEN 2 * conf_args.model_confidence[2] * ComputedDen
    ELSE ComputedDen

\* C23: for a non-empty cited list, total_schools >= 1 and N >= 1 the function
\* returns min(1, final), where coverage = distinct cited schools /
\* min(total_schools, 4), support_strength = support_count / N, computed =
\* 0.2 * coverage + 0.1 * support_strength, and final = 0.5 * external + 0.5 *
\* computed with a numeric external confidence, computed otherwise.
C23_HybridFormula ==
    (/\ conf_pc \in {"returned", "raised"}
     /\ conf_args.supporting_excerpts # <<>>
     /\ conf_args.total_schools >= 1
     /\ conf_args.N >= 1) =>
        /\ ConfidenceReturned
        /\ IF FinalNum >= FinalDen
           THEN conf_returned = <<1, 1>>
           ELSE conf_returned[1] * FinalDen = FinalNum * conf_returned[2]

\* C23 witness: two distinct schools cited out of five (the cap of 4 divides),
\* one supporting excerpt counted out of N = 2, external confidence 0.5:
\* 0.5 * 0.5 + 0.5 * (0.2 * 2/4 + 0.1 * 1/2) = 0.325.
C23_Witness ==
    /\ ConfidenceReturned
    /\ CitedSchoolCount = 2
    /\ conf_args.total_schools = CoverageCap + 1
    /\ conf_args.support_count = 1
    /\ conf_args.N = 2
    /\ conf_args.model_confidence = <<1, 2>>
    /\ conf_returned = <<13, 40>>


(***************************************************************************)
(* Properties of the confidence of a validated result                      *)
(***************************************************************************)
\* The sent excerpts whose ids the validated result cites.
CitedSent ==
    {i \in 1..Len(selected_excerpts) :
        selected_excerpts[i].id \in Range(result.supporting_ids)}

\* computed = 0.2 * coverage + 0.1 * support_strength of the returned result.
ComputedConfidence ==
    RatAdd(RatMul(Rat(2, 10),
                  Rat(Cardinality({selected_excerpts[i].school : i \in CitedSent}),
                      Min(TotalSchools(commentaries_data), 4))),
           RatMul(Rat(1, 10), Rat(Cardinality(CitedSent), Len(selected_excerpts))))

ReportedNumericConfidence == response.obj.confidence_score.kind = "number"

\* The reported confidence clamped to [0, 1].
ClampedReported ==
    LET c == response.obj.confidence_score.value
    IN  IF RatLe(c, Zero) THEN Zero ELSE IF RatLe(One, c) THEN One ELSE c

Half(r) == RatMul(Rat(1, 2), r)

\* A validated result that cites at least one sent excerpt.
ValidatedWithCitations == Validated /\ result.supporting_ids # <<>>

\* With a numeric confidence in the response the result carries the blend.
NumericConfidenceBlended ==
    (ValidatedWithCitations /\ ReportedNumericConfidence) =>
        RatEq(result.confidence_score,
              RatAdd(Half(ClampedReported), Half(ComputedConfidence)))

\* Without a numeric confidence the result carries half the computed value:
\* the missing value was replaced by 0.0 at line 1627 and blended as a number.
MissingConfidenceHalved ==
    (ValidatedWithCitations /\ ~ReportedNumericConfidence) =>
        RatEq(result.confidence_score, Half(ComputedConfidence))

\* C24 (as claimed): end to end, a numeric confidence in the response gives
\* final = 0.5 * clamped + 0.5 * computed, and a response without a numeric
\* confidence gives final = computed, with no blending.
C24_ExternalRuleEndToEnd ==
    ValidatedWithCitations =>
        RatEq(result.confidence_score,
              IF ReportedNumericConfidence
              THEN RatAdd(Half(ClampedReported), Half(ComputedConfidence))
              ELSE ComputedConfidence)


(***************************************************************************)
(* Properties of the fallbacks of select_top_excerpts                      *)
(***************************************************************************)
\* The embedding step succeeded and the highest similarity among the
\* candidates is below 0.1.
AllSimilaritiesLow(candidates) ==
    /\ SelectReturned
    /\ select_args.encodeOk
    /\ candidates # <<>>
    /\ \A n \in 1..Len(candidates) : candidates[n].sim < 10

\* The place of an excerpt among the candidates.
CandidateIndex(candidates, e) ==
    CHOOSE n \in 1..Len(candidates) : candidates[n] = e

\* C25 (as claimed): when the highest similarity is below 0.1 the function
\* returns the first min(8, n) candidates in their original, pre-ranking order.
C25_Original ==
    SelectReturned =>
        LET candidates == SelectCandidates
        IN  AllSimilaritiesLow(candidates) =>
                select_returned =
                    [i \in 1..Min(8, Len(candidates)) |-> candidates[i]]

\* C25 (amended): when the highest similarity is below 0.1 the function
\* returns min(8, n) candidates, whatever max_excerpts is: the highest-ranked
\* ones, in non-increasing order of similarity, ties in candidate order.
C25_LowSimilarityTopRanked ==
    SelectReturned =>
        LET candidates == SelectCandidates
            Index(e) == CandidateIndex(candidates, e)
            Before(d, e) ==
                d.sim > e.sim \/ (d.sim = e.sim /\ Index(d) < Index(e))
        IN  AllSimilaritiesLow(candidates) =>
              /\ Len(select_returned) = Min(8, Len(candidates))
              /\ Range(select_returned) \subseteq Range(candidates)
              /\ \A i, j \in 1..Len(select_returned) :
                    i < j => Before(select_returned[i], select_returned[j])
              /\ \A e \in Range(candidates) \ Range(select_returned) :
                    \A i \in 1..Len(select_returned) : Before(select_returned[i], e)

\* C25 witness: more than 8 candidates, all of low similarity, and the first
\* excerpt returned is not the first candidate.
C25_Witness ==
    /\ SelectReturned
    /\ LET candidates == SelectCandidates
       IN  /\ AllSimilaritiesLow(candidates)
           /\ Len(candidates) > 8
           /\ Len(select_returned) = 8
           /\ select_returned[1] # candidates[1]
           /\ select_returned[1].sim > candidates[1].sim

\* C26: when the embedding step fails the function still returns, and what it
\* returns is the first min(max_excerpts, n) candidates in their original
\* order, n being the number of candidates built before ranking.
C26_EncodeFailureUnranked ==
    (select_pc # "call" /\ ~select_args.encodeOk) =>
        /\ SelectReturned
        /\ LET candidates == SelectCandidates
           IN  select_returned =
                   [i \in 1..Min(select_args.max_excerpts, Len(candidates)) |->
                       candidates[i]]

\* C26 witness: the embedding step failed with more candidates than
\* max_excerpts, and the first candidate is returned although a candidate of
\* higher similarity was left out.
C26_Witness ==
    /\ SelectReturned
    /\ ~select_args.encodeOk
    /\ select_args.max_excerpts > 0
    /\ Len(select_returned) = select_args.max_excerpts
    /\ LET candidates == SelectCandidates
       IN  /\ Len(candidates) > select_args.max_excerpts
           /\ select_returned[1] = candidates[1]
           /\ \E n \in 1..Len(candidates) :
                 /\ candidates[n].sim > select_returned[1].sim
                 /\ candidates[n] \notin Range(select_returned)

\* Some evidence item of the call has non-empty text.
SomeTextNonEmpty ==
    \E i \in 1..Len(select_args.commentaries_data) :
        TextLen(select_args.commentaries_data[i].text) > 0

\* Some evidence item yields a candidate: a sentence of at least 5 characters
\* (when max_per_school lets any snippet in) or a text of more than 5.
SomeCandidateText ==
    \E i \in 1..Len(select_args.commentaries_data) :
        LET text == select_args.commentaries_data[i].text
        IN  \/ TextLen(text) > 5
            \/ /\ select_args.max_per_school >= 1
               /\ \E n \in 1..Len(text) : SentLen(text[n].words, text[n].wlen) >= 5

\* C27 (as claimed): with an embedding model and at least one evidence item
\* of non-empty text the function never returns an empty list, on any path.
C27_Original ==
    (SelectReturned /\ SomeTextNonEmpty) => select_returned # <<>>

\* C27 (amended): with an embedding model the function returns a non-empty
\* list exactly when some evidence item yields a candidate and either the
\* embedding step succeeds or max_excerpts is at least 1; segmentation that
\* yields no snippet and low similarities do not make the list empty.
C27_NonEmptyWhenCandidates ==
    SelectReturned =>
        (select_returned # <<>>
            <=> (SomeCandidateText
                 /\ (select_args.encodeOk \/ select_args.max_excerpts >= 1)))

\* C27 witness: segmentation yielded no snippet, the embedding step failed,
\* and the whole text of an item is returned.
C27_Witness ==
    /\ SelectReturned
    /\ SelectCapped = <<>>
    /\ select_args.max_per_school >= 1
    /\ ~select_args.encodeOk
    /\ select_returned # <<>>
    /\ select_returned[1].k = 0


(***************************************************************************)
(* Properties of the shrunk bundle                                         *)
(***************************************************************************)
\* The estimate of line 1509 for a selection exceeds the budget.
OverBudget(selection) ==
    13 * (ExampleWords + 3 + queryWords + BundleWords(selection) + InstructionWords)
        > 10 * 2800

\* The first 6 excerpts of a selection, which is in rank order.
FirstSix(selection) == [i \in 1..Min(6, Len(selection)) |-> selection[i]]

IdsOf(bundle) == {bundle[i].id : i \in 1..Len(bundle)}

\* The excerpts of a bundle that the result cites.
CitedOf(bundle) ==
    {i \in 1..Len(bundle) : bundle[i].id \in Range(result.supporting_ids)}

\* 0.2 * coverage + 0.1 * support_strength with N the size of the bundle.
ComputedOver(bundle) ==
    RatAdd(RatMul(Rat(2, 10),
                  Rat(Cardinality({bundle[i].school : i \in CitedOf(bundle)}),
                      Min(TotalSchools(commentaries_data), 4))),
           RatMul(Rat(1, 10), Rat(Cardinality(CitedOf(bundle)), Len(bundle))))

\* C28: when the estimated prompt size exceeds the budget the bundle sent is
\* the first 6 excerpts of the ranked selection, and the offered-id set of the
\* citation filter, the citations of the parse-failure fallback and the N of
\* the confidence estimate are those of the shrunk bundle.
C28_ShrunkBundleUsed ==
    (Done /\ calls > 0) =>
        LET selection == Selection
            shrunk == FirstSix(selection)
        IN  OverBudget(selection) =>
              /\ selected_excerpts = shrunk
              /\ Range(result.supporting_ids) \subseteq IdsOf(shrunk)
              /\ BothParsesFailed =>
                    result.supporting_ids =
                        [i \in 1..Min(3, Len(shrunk)) |-> shrunk[i].id]
              /\ (Validated /\ result.supporting_ids # <<>>) =>
                    RatEq(result.confidence_score,
                          RatAdd(Half(ValidConfidence(response.obj)),
                                 Half(ComputedOver(shrunk))))

\* C28 witness: twelve excerpts were selected and six sent; the service cited
\* C1, selected but not sent, next to C2, and the result cites C2 alone with a
\* confidence normalised by 6: 0.5 * 0.5 + 0.5 * (0.2 * 1/2 + 0.1 * 6/6).
C28_Witness ==
    /\ Done
    /\ Validated
    /\ Len(selected_excerpts) = 6
    /\ "C1" \in CitedByService
    /\ result.supporting_ids = <<"C2">>
    /\ response.obj.confidence_score = Num(5, 10)
    /\ result.confidence_score = <<7, 20>>
    /\ LET selection == Selection
       IN  /\ OverBudget(selection)
           /\ Len(selection) = 12
           /\ "C1" \in IdsOf(selection) \ IdsOf(FirstSix(selection))


(***************************************************************************)
(* Properties of the usage bookkeeping of one free-trial call              *)
(***************************************************************************)
\* One step of a free-trial call as the wrapper is claimed to behave: at the
\* quota the call ends with the exhaustion sentinel, no request and the stored
\* count untouched; below it the stored count goes up by one at the check, and
\* no later step of the call touches it.
CountedOnceStep ==
    /\ (pc = "start" /\ is_free_trial) =>
          IF usage_count >= FREE_TRIAL_USES
          THEN /\ pc' = "done"
               /\ IsSentinel(result')
               /\ result'.note = "Free trial uses exhausted. Please add your own API key."
               /\ calls' = calls
               /\ usage_count' = usage_count
          ELSE usage_count' = usage_count + 1
    /\ pc # "start" => usage_count' = usage_count

\* While the usage file can be written every step of a call is as claimed.
CountedOnceWhileSaved == [][usageWritable => CountedOnceStep]_vars

\* C29 (as claimed): a free-trial call at the quota returns the exhaustion
\* sentinel, does not call the service and leaves the stored usage data
\* unchanged; a call below the quota increments the stored count exactly once.
C29_ExhaustedOrCountedOnce == [][CountedOnceStep]_vars


(***************************************************************************)
(* Two sessions making free-trial calls against the shared usage file      *)
(* (lines 92-172): each session has its own user id, and each read and     *)
(* each write of the file is one step                                      *)
(***************************************************************************)
Sessions == 1..2

\* get_user_id (lines 92-96): a session keeps the id it generated.
get_user_id(s) == "user" \o ToString(s)

Users == {get_user_id(s) : s \in Sessions}

InitSessions ==
    /\ usage_tracking = [u \in Users |-> 0]
    /\ session_pc = [s \in Sessions |-> "idle"]
    /\ usage_data = [s \in Sessions |-> [u \in Users |-> 0]]
    /\ session_calls = [s \in Sessions |-> 0]
    /\ increments = [s \in Sessions |-> 0]
    /\ PipelineIdle
    /\ SearchIdle
    /\ SelectIdle
    /\ ConfidenceIdle

\* A session calls query_groq_with_usage_tracking in free-trial mode.
BeginCall ==
    \E s \in Sessions :
        /\ session_pc[s] = "idle"
        /\ session_calls[s] < MaxAttempts
        /\ session_calls' = [session_calls EXCEPT ![s] = @ + 1]
        /\ session_pc' = [session_pc EXCEPT ![s] = "check"]
        /\ UNCHANGED <<usage_tracking, usage_data, increments, pipeVars, searchVars, selectVars,
                       confVars>>

\* Line 157: can_use_free_trial reads the file; at the quota the call returns.
CheckQuota ==
    \E s \in Sessions :
        /\ session_pc[s] = "check"
        /\ session_pc' =
              [session_pc EXCEPT
                  ![s] = IF usage_tracking[get_user_id(s)] < FREE_TRIAL_USES
                         THEN "load" ELSE "idle"]
        /\ UNCHANGED <<usage_tracking, usage_data, session_calls, increments,
                       pipeVars, searchVars, selectVars,
                       confVars>>

\* Line 123: increment_user_usage reads the file into usage_data.
LoadUsage ==
    \E s \in Sessions :
        /\ session_pc[s] = "load"
        /\ usage_data' = [usage_data EXCEPT ![s] = usage_tracking]
        /\ session_pc' = [session_pc EXCEPT ![s] = "save"]
        /\ UNCHANGED <<usage_tracking, session_calls, increments, pipeVars, searchVars, selectVars,
                       confVars>>

\* Lines 124-134 and 172: the count of the session's user goes up in
\* usage_data, the whole of usage_data is written over the file, and the
\* call goes on to the reasoning service.
SaveUsage ==
    \E s \in Sessions :
        /\ session_pc[s] = "save"
        /\ usage_tracking' = [usage_data[s] EXCEPT ![get_user_id(s)] = @ + 1]
        /\ increments' = [increments EXCEPT ![s] = @ + 1]
        /\ session_pc' = [session_pc EXCEPT ![s] = "idle"]
        /\ UNCHANGED <<usage_data, session_calls, pipeVars, searchVars, selectVars,
                       confVars>>

SessionsNext == BeginCall \/ CheckQuota \/ LoadUsage \/ SaveUsage

SpecSessions == InitSessions /\ [][SessionsNext]_vars


(***************************************************************************)
(* Properties of the shared usage file                                     *)
(***************************************************************************)
\* A session that is alone on the file has every increment stored and stays
\* within the quota.
AloneOnFileCounted ==
    \A s \in Sessions :
        (\A t \in Sessions \ {s} : session_calls[t] = 0) =>
            /\ usage_tracking[get_user_id(s)] = increments[s]
            /\ increments[s] <= FREE_TRIAL_USES

\* C30 (as claimed): under any interleaving of two sessions every completed
\* increment is reflected in the stored data: a user's stored usage_count is
\* the number of that user's completed increments, and no user obtains more
\* than FREE_TRIAL_USES free-trial calls.
C30_NoLostIncrements ==
    \A s \in Sessions :
        /\ usage_tracking[get_user_id(s)] = increments[s]
        /\ increments[s] <= FREE_TRIAL_USES

=============================================================================
